---- MODULE Spec2Model ----
(***************************************************************************)
(* A model of aws-s3-generator: the interactive prompts (src/utils.ts),    *)
(* the policy-document schema (src/unnamed/part_000, imported as ./types)  *)
(* and the provisioning flow of the top-level async function of            *)
(* src/index.ts.                                                           *)
(*                                                                         *)
(* Strings the code inspects character by character (prompt inputs, names) *)
(* are sequences of one-character strings; Str turns one into the string   *)
(* a template literal interpolates.                                        *)
(***************************************************************************)
EXTENDS Integers, Sequences, FiniteSets, TLC

VARIABLES
    pc,            \* position of the top-level async function of index.ts
    env,           \* Bun.env / process.env: AWS_ACCOUNT_ID, AWS_DEFAULT_REGION
    bucketName, username, appUrl, allowPublicRead, region, defaultPolicy,
                   \* the answers destructured at index.ts:16-23
    name,          \* index.ts:28, the answer of customPolicyNamePrompt
    policyName,    \* index.ts:25
    accessKey,     \* index.ts:121, { AccessKeyId, SecretAccessKey }
    error,         \* the error that rejected the top-level promise, "" if none
    lastInput,     \* the input the operator submitted to the last question
    lastVerdict,   \* what that question's validate() returned
    confirmed,     \* the file text that passed validate() of 'policies'
    rejections,    \* confirmations rejected by the question that is blocking
                   \* (saturating), 0 once it has returned
    files,         \* the file system: path -> content
    writes,        \* fs.writeFileSync calls made, in order
    inflight,      \* AWS requests sent and not yet answered
    calls,         \* AWS requests answered, in order, with their outcome
    aws            \* the resources that exist in the AWS account

vars == <<pc, env, bucketName, username, appUrl, allowPublicRead, region,
          defaultPolicy, name, policyName, accessKey, error, lastInput,
          lastVerdict, confirmed, rejections, files, writes, inflight, calls, aws>>

----------------------------------------------------------------------------
(* Bounds of the model *)

\* prompt inputs are enumerated exhaustively up to this length
MaxInputLen == 3
\* the rejection counter saturates here; the code keeps no such counter
MaxRejections == 2
\* policy documents are enumerated with up to this many statements
MaxStatements == 2

----------------------------------------------------------------------------
(* Characters and strings *)

Lower == {"a","b","c","d","e","f","g","h","i","j","k","l","m",
          "n","o","p","q","r","s","t","u","v","w","x","y","z"}
Upper == {"A","B","C","D","E","F","G","H","I","J","K","L","M",
          "N","O","P","Q","R","S","T","U","V","W","X","Y","Z"}
Digit == {"0","1","2","3","4","5","6","7","8","9"}

\* [a-z0-9.-]
BucketNameClass == Lower \cup Digit \cup {".", "-"}
\* [a-zA-Z0-9+=,.@_-]
IamNameClass == Lower \cup Upper \cup Digit \cup {"+", "=", ",", ".", "@", "_", "-"}

\* /^[class]+$/.test(s)
MatchesClassPlus(class, s) ==
    /\ Len(s) >= 1
    /\ \A i \in 1..Len(s) : s[i] \in class

LineTerminators == {"\n", "\r"}

\* /^https?:\/\/.+$/.test(s)
MatchesAppUrl(s) ==
    \E k \in {4, 5} :
        /\ Len(s) >= k + 4
        /\ SubSeq(s, 1, 4) = <<"h","t","t","p">>
        /\ (k = 5 => s[5] = "s")
        /\ SubSeq(s, k + 1, k + 3) = <<":","/","/">>
        /\ \A i \in (k + 4)..Len(s) : s[i] \notin LineTerminators

Rep(c, n) == [i \in 1..n |-> c]

\* Array.prototype.join(sep) of a sequence of strings
RECURSIVE Join(_, _)
Join(msgs, sep) ==
    IF msgs = <<>> THEN ""
    ELSE IF Len(msgs) = 1 THEN msgs[1]
    ELSE msgs[1] \o sep \o Join(Tail(msgs), sep)

\* the string a sequence of characters spells
Str(s) == Join(s, "")

\* all sequences over alphabet of length 0..n
SeqsUpTo(alphabet, n) == UNION {[1..k -> alphabet] : k \in 0..n}

\* `${v}` of an environment variable: an unset variable prints as undefined
Unset == "<unset>"
Interpolate(v) == IF v = Unset THEN "undefined" ELSE v

----------------------------------------------------------------------------
(* JSON values and JSON text *)

\* a JSON value: its type, the text of a string or number, and the keys and
\* items of an object, or the items of an array
JStr(s)       == [type |-> "string", str |-> s,  keys |-> <<>>, items |-> <<>>]
JNum(s)       == [type |-> "number", str |-> s,  keys |-> <<>>, items |-> <<>>]
JArr(xs)      == [type |-> "array",  str |-> "", keys |-> <<>>, items |-> xs]
JObj(ks, xs)  == [type |-> "object", str |-> "", keys |-> ks,   items |-> xs]
JNull         == [type |-> "null",   str |-> "", keys |-> <<>>, items |-> <<>>]
JUndefined    == [type |-> "undefined", str |-> "", keys |-> <<>>, items |-> <<>>]

\* obj[k]
Get(obj, k) ==
    IF obj.type = "object" /\ \E i \in 1..Len(obj.keys) : obj.keys[i] = k
    THEN obj.items[CHOOSE i \in 1..Len(obj.keys) : obj.keys[i] = k]
    ELSE JUndefined

\* the text of a file or of a request parameter: either JSON text, which
\* JSON.parse turns back into its value, or text JSON.parse throws on
JSONstringify(value, indent) == [parsable |-> TRUE, value |-> value, indent |-> indent]
NotJson == [parsable |-> FALSE, value |-> JNull, indent |-> 0]
JSONparse(text) == [threw |-> ~text.parsable, value |-> text.value]

\* the concatenation of a sequence of sequences
RECURSIVE Flatten(_)
Flatten(ss) == IF ss = <<>> THEN <<>> ELSE ss[1] \o Flatten(Tail(ss))

----------------------------------------------------------------------------
(* policySchema: the zod schema of a policy document *)

\* the message of zod's invalid_type issue
InvalidType(expected, v) ==
    IF v.type = "undefined" THEN "Required"
    ELSE "Expected " \o expected \o ", received " \o v.type

\* z.string()
zString(v) == IF v.type = "string" THEN <<>> ELSE <<InvalidType("string", v)>>

\* z.array(z.string()).min(1, { message }): the issues of the items, or the
\* too_small issue with the custom message
zStringArrayMin1(v, message) ==
    IF v.type # "array" THEN <<InvalidType("array", v)>>
    ELSE IF Len(v.items) < 1 THEN <<message>>
    ELSE Flatten([i \in 1..Len(v.items) |-> zString(v.items[i])])

\* the object schema of one element of Statement
statementSchema(v) ==
    IF v.type # "object" THEN <<InvalidType("object", v)>>
    ELSE zString(Get(v, "Effect"))
         \o zStringArrayMin1(Get(v, "Action"), "Policy must have at least one action")
         \o zStringArrayMin1(Get(v, "Resource"), "Policy must have at least one resource")

\* z.literal('2012-10-17')
versionSchema(v) ==
    IF v = JStr("2012-10-17") THEN <<>>
    ELSE <<"Invalid literal value, expected \"2012-10-17\"">>

\* z.array(z.object({...})): no minimum length is set on Statement
statementArraySchema(v) ==
    IF v.type # "array" THEN <<InvalidType("array", v)>>
    ELSE Flatten([i \in 1..Len(v.items) |-> statementSchema(v.items[i])])

\* policySchema.parse(v): the messages of the issues of the ZodError it
\* throws, <<>> when it returns
policySchema(v) ==
    IF v.type # "object" THEN <<InvalidType("object", v)>>
    ELSE versionSchema(Get(v, "Version")) \o statementArraySchema(Get(v, "Statement"))

----------------------------------------------------------------------------
(* The validate() callbacks of the prompts; Accept is the return value true *)

Accept == [ok |-> TRUE, message |-> ""]
\* before any question was answered
NotAsked == [ok |-> FALSE, message |-> ""]
Reject(message) == [ok |-> FALSE, message |-> message]

MinNameLen == 3
MaxNameLen == 63

\* mutant of validateBucketName: a name of 63 characters is refused
validateBucketNameBelow63(input) ==
    IF input = <<>> THEN Reject("Please enter a bucket name")
    ELSE IF Len(input) < MinNameLen
    THEN Reject("Bucket name must be at least 3 characters long")
    ELSE IF Len(input) >= MaxNameLen
    THEN Reject("Bucket name must be less than 63 characters long")
    ELSE IF ~MatchesClassPlus(BucketNameClass, input)
    THEN Reject("Bucket name must be lowercase and contain only letters, numbers, periods, and hyphens")
    ELSE Accept

\* userBucketPrompt, question bucketName
validateBucketName(input) ==
    IF input = <<>> THEN Reject("Please enter a bucket name")
    ELSE IF Len(input) < MinNameLen
    THEN Reject("Bucket name must be at least 3 characters long")
    ELSE IF Len(input) > MaxNameLen
    THEN Reject("Bucket name must be less than 63 characters long")
    ELSE IF ~MatchesClassPlus(BucketNameClass, input)
    THEN Reject("Bucket name must be lowercase and contain only letters, numbers, periods, and hyphens")
    ELSE Accept

\* userBucketPrompt, question username
validateUsername(input) ==
    IF input = <<>> THEN Reject("Please enter a username")
    ELSE IF Len(input) < MinNameLen
    THEN Reject("Username must be at least 3 characters long")
    ELSE IF Len(input) > MaxNameLen
    THEN Reject("Username must be less than 63 characters long")
    ELSE IF ~MatchesClassPlus(IamNameClass, input)
    THEN Reject("Username must contain only letters, numbers, and the following characters: +=,.@_-")
    ELSE Accept

\* userBucketPrompt, question appUrl
validateAppUrl(input) ==
    IF input = <<>> THEN Reject("Please enter an app URL")
    ELSE IF ~MatchesAppUrl(input) THEN Reject("App URL must be a valid URL")
    ELSE Accept

\* customPolicyNamePrompt, question policyName
validatePolicyName(input) ==
    IF input = <<>> THEN Reject("Please enter a policy name")
    ELSE IF Len(input) < MinNameLen
    THEN Reject("Policy name must be at least 3 characters long")
    ELSE IF Len(input) > MaxNameLen
    THEN Reject("Policy name must be less than 63 characters long")
    ELSE IF ~MatchesClassPlus(IamNameClass, input)
    THEN Reject("Policy name must contain only letters, numbers, and the following characters: +=,.@_-")
    ELSE Accept

\* mutant of validatePolicies: the parsed file is not checked against the
\* schema
validatePoliciesParseOnly(file) ==
    IF JSONparse(file).threw THEN Reject("Please enter a valid JSON object")
    ELSE Accept

\* customPolicyPrompt, question policies: validate() on the text read from
\* custom-bucket-policy.json
validatePolicies(file) ==
    IF JSONparse(file).threw THEN Reject("Please enter a valid JSON object")
    ELSE IF policySchema(JSONparse(file).value) # <<>>
    THEN Reject(Join(policySchema(JSONparse(file).value), ", "))
    ELSE Accept

\* the answer of an input question: a blank input resolves to the question's
\* default before validate() sees it, and to the empty string without one
NoDefault == <<>>
Answer(input, default) == IF input = <<>> THEN default ELSE input

\* the same for the region question, whose default is an environment
\* variable that may be unset (regions are not inspected: plain strings)
AnswerRegion(input, default) ==
    IF input # "" THEN input ELSE IF default = Unset THEN "" ELSE default

----------------------------------------------------------------------------
(* The documents, names and paths the code builds *)

PolicyFile == "custom-bucket-policy.json"

\* `.env.${bucketName}`
envPath(b) == ".env." \o Str(b)

\* index.ts:31-44, the skeleton written to custom-bucket-policy.json
skeletonPolicy(b) ==
    JSONstringify(
        JObj(<<"Version", "Statement">>,
             <<JStr("2012-10-17"),
               JArr(<<JObj(<<"Effect", "Action", "Resource">>,
                           <<JStr("Allow"),
                             JArr(<<>>),
                             JArr(<<JStr("arn:aws:s3:::" \o Str(b) \o "/*")>>)>>)>>)>>),
        4)

\* mutant of publicBucketPolicy: the grant covers the whole bucket
publicBucketPolicyWholeBucket(b) ==
    JSONstringify(
        JObj(<<"Version", "Statement">>,
             <<JStr("2012-10-17"),
               JArr(<<JObj(<<"Sid", "Effect", "Principal", "Action", "Resource">>,
                           <<JStr("PublicReadGetObject"),
                             JStr("Allow"),
                             JStr("*"),
                             JArr(<<JStr("s3:GetObject")>>),
                             JArr(<<JStr("arn:aws:s3:::" \o Str(b) \o "/*")>>)>>)>>)>>),
        0)

\* utils.ts:145-156, the Policy of putBucketPolicy
publicBucketPolicy(b) ==
    JSONstringify(
        JObj(<<"Version", "Statement">>,
             <<JStr("2012-10-17"),
               JArr(<<JObj(<<"Sid", "Effect", "Principal", "Action", "Resource">>,
                           <<JStr("PublicReadGetObject"),
                             JStr("Allow"),
                             JStr("*"),
                             JArr(<<JStr("s3:GetObject")>>),
                             JArr(<<JStr("arn:aws:s3:::" \o Str(b) \o "/public/*")>>)>>)>>)>>),
        0)

\* utils.ts:134-139, the PublicAccessBlockConfiguration
publicAccessBlockConfiguration ==
    [BlockPublicAcls |-> FALSE, IgnorePublicAcls |-> FALSE,
     RestrictPublicBuckets |-> FALSE, BlockPublicPolicy |-> FALSE]

MaxAgeSeconds == 3000

\* index.ts:60-68, the corsConfiguration passed to attachBucketCors
corsConfiguration(url) ==
    <<[AllowedHeaders |-> <<"*">>,
       AllowedMethods |-> <<"GET", "PUT", "DELETE">>,
       AllowedOrigins |-> <<Str(url)>>,
       ExposeHeaders |-> <<>>,
       MaxAgeSeconds |-> MaxAgeSeconds]>>

\* utils.ts:169, `default-${bucketName}-policy`
defaultPolicyName(b) == "default-" \o Str(b) \o "-policy"

\* utils.ts:170-179, the document of the default policy
defaultPolicyDocument(b) ==
    JSONstringify(
        JObj(<<"Version", "Statement">>,
             <<JStr("2012-10-17"),
               JArr(<<JObj(<<"Effect", "Action", "Resource">>,
                           <<JStr("Allow"),
                             JArr(<<JStr("s3:PutObject"), JStr("s3:GetObject")>>),
                             JArr(<<JStr("arn:aws:s3:::" \o Str(b) \o "/*")>>)>>)>>)>>),
        0)

\* the ARN IAM gives a managed policy of an account
iamPolicyArn(account, pname) == "arn:aws:iam::" \o account \o ":policy/" \o pname

\* the account the credentials of the environment belong to
AwsAccountId == "123456789012"

\* mutant of defaultPolicyArn: the ARN the createPolicy response carries
defaultPolicyArnFromResponse(b) == iamPolicyArn(AwsAccountId, defaultPolicyName(b))

\* utils.ts:185, the ARN getDefaultUserPolicy returns
defaultPolicyArn(b) ==
    "arn:aws:iam::" \o Interpolate(env.AWS_ACCOUNT_ID) \o ":policy/default-"
        \o Str(b) \o "-policy"

\* index.ts:114, the ARN of the custom policy
customPolicyArn(pname) ==
    "arn:aws:iam::" \o Interpolate(env.AWS_ACCOUNT_ID) \o ":policy/" \o Str(pname)

\* mutant of envFileContent: the region line holds the environment default
envFileContentEnvRegion(key, b, r) ==
    "AWS_ACCESS_KEY_ID=" \o key.AccessKeyId
        \o "\nAWS_SECRET_ACCESS_KEY=" \o key.SecretAccessKey
        \o "\nAWS_BUCKET_NAME=" \o Str(b)
        \o "\nAWS_REGION=" \o Interpolate(env.AWS_DEFAULT_REGION)

\* index.ts:130, the text of the credentials file
envFileContent(key, b, r) ==
    "AWS_ACCESS_KEY_ID=" \o key.AccessKeyId
        \o "\nAWS_SECRET_ACCESS_KEY=" \o key.SecretAccessKey
        \o "\nAWS_BUCKET_NAME=" \o Str(b)
        \o "\nAWS_REGION=" \o r

\* fs.writeFileSync(path, content): creates or overwrites
writeFileSync(fs, path, content) ==
    [p \in DOMAIN fs \cup {path} |-> IF p = path THEN content ELSE fs[p]]

----------------------------------------------------------------------------
(* AWS requests *)

NoText == [parsable |-> FALSE, value |-> JUndefined, indent |-> 0]

\* a request: the operation, the region given to the wrapper, the region of
\* the client it built (region || AWS_DEFAULT_REGION) and the parameters
Request(op, r) ==
    [op |-> op, region |-> r,
     clientRegion |-> IF r # "" THEN r ELSE env.AWS_DEFAULT_REGION,
     Bucket |-> <<>>, UserName |-> <<>>, PolicyName |-> "", PolicyArn |-> "",
     PolicyDocument |-> NoText, Policy |-> NoText,
     CORSRules |-> <<>>, PublicAccessBlock |-> <<>>]

NoResources ==
    [buckets |-> {}, cors |-> {}, publicAccessBlock |-> {}, bucketPolicy |-> {},
     users |-> {}, policies |-> {}, attachments |-> {}, accessKeys |-> {}]

\* what a successful request adds to the account, given the response
Apply(a, r, resp) ==
    CASE r.op = "createBucket" ->
            [a EXCEPT !.buckets = @ \cup {r.Bucket}]
      [] r.op = "putBucketCors" ->
            [a EXCEPT !.cors = {c \in @ : c.Bucket # r.Bucket}
                                \cup {[Bucket |-> r.Bucket, CORSRules |-> r.CORSRules]}]
      [] r.op = "putPublicAccessBlock" ->
            [a EXCEPT !.publicAccessBlock = {c \in @ : c.Bucket # r.Bucket}
                \cup {[Bucket |-> r.Bucket, Configuration |-> r.PublicAccessBlock]}]
      [] r.op = "putBucketPolicy" ->
            [a EXCEPT !.bucketPolicy = {c \in @ : c.Bucket # r.Bucket}
                                \cup {[Bucket |-> r.Bucket, Policy |-> r.Policy]}]
      [] r.op = "createUser" ->
            [a EXCEPT !.users = @ \cup {r.UserName}]
      [] r.op = "createPolicy" ->
            [a EXCEPT !.policies = @ \cup {[PolicyName |-> r.PolicyName,
                                            PolicyDocument |-> r.PolicyDocument,
                                            Arn |-> resp.Arn]}]
      [] r.op = "attachUserPolicy" ->
            [a EXCEPT !.attachments = @ \cup {[UserName |-> r.UserName,
                                               PolicyArn |-> r.PolicyArn]}]
      [] r.op = "createAccessKey" ->
            [a EXCEPT !.accessKeys = @ \cup {[UserName |-> r.UserName,
                                              AccessKeyId |-> resp.AccessKey.AccessKeyId]}]

NoAccessKey == [AccessKeyId |-> "", SecretAccessKey |-> ""]

\* the access keys IAM may hand out
AccessKeys ==
    {[AccessKeyId |-> "AKIAEXAMPLE1", SecretAccessKey |-> "secret1"],
     [AccessKeyId |-> "AKIAEXAMPLE2", SecretAccessKey |-> "secret2"]}

\* the responses a successful request may get
Responses(r) ==
    IF r.op = "createAccessKey"
    THEN {[Arn |-> "", AccessKey |-> k] : k \in AccessKeys}
    ELSE IF r.op = "createPolicy"
    THEN {[Arn |-> iamPolicyArn(AwsAccountId, r.PolicyName), AccessKey |-> NoAccessKey]}
    ELSE {[Arn |-> "", AccessKey |-> NoAccessKey]}

----------------------------------------------------------------------------
(* What the operator may type, and what the environment may hold *)

BucketNameInputs ==
    SeqsUpTo({"a", "B"}, MaxInputLen)
    \cup {<<"z", ".", "-", "9">>, <<"a", "_", "a">>,
          Rep("a", MaxNameLen - 1) \o <<"B">>,
          Rep("a", MaxNameLen), Rep("a", MaxNameLen + 1)}

UsernameInputs ==
    {<<>>, <<"j", "o">>, <<"j", "o", "#", "d", "o", "e">>,
     <<"j", "o", ".", "d", "o", "e", "_", "1">>}

DefaultAppUrl ==
    <<"h","t","t","p",":","/","/","l","o","c","a","l","h","o","s","t",":","3","0","0","0">>

AppUrlInputs ==
    {<<>>, <<"f","t","p",":","/","/","x">>, <<"h","t","t","p","s",":","/","/","x">>}

RegionInputs == {"", "eu-west-1"}

PolicyNameInputs == {<<>>, <<"m", "y">>, <<"m", "y", "-", "p", "o", "l">>}

Environments ==
    [AWS_ACCOUNT_ID : {AwsAccountId, Unset}, AWS_DEFAULT_REGION : {"us-east-1", Unset}]

\* the skeleton with one action filled in, an operator's finished edit
editedPolicy(b) ==
    JSONstringify(
        JObj(<<"Version", "Statement">>,
             <<JStr("2012-10-17"),
               JArr(<<JObj(<<"Effect", "Action", "Resource">>,
                           <<JStr("Allow"),
                             JArr(<<JStr("s3:GetObject")>>),
                             JArr(<<JStr("arn:aws:s3:::" \o Str(b) \o "/*")>>)>>)>>)>>),
        4)

\* a document with no statement at all
emptyStatementPolicy ==
    JSONstringify(JObj(<<"Version", "Statement">>, <<JStr("2012-10-17"), JArr(<<>>)>>), 4)

\* the texts the operator may leave in custom-bucket-policy.json
FileTexts(b) == {skeletonPolicy(b), editedPolicy(b), emptyStatementPolicy, NotJson}

\* a credentials file left by an earlier run
StaleEnvFile == "AWS_ACCESS_KEY_ID=stale"

Undefined == [defined |-> FALSE, value |-> <<>>]
Defined(v) == [defined |-> TRUE, value |-> v]
\* !v of a string | undefined
Falsy(v) == ~v.defined \/ v.value = <<>>

----------------------------------------------------------------------------
(* The state after construction: nothing asked, nothing sent *)

Init ==
    /\ pc = "bucketName"
    /\ env \in Environments
    /\ bucketName = <<>> /\ username = <<>> /\ appUrl = <<>>
    /\ allowPublicRead = FALSE /\ region = "" /\ defaultPolicy = FALSE
    /\ name = <<>>
    /\ policyName = Undefined
    /\ accessKey = NoAccessKey
    /\ error = ""
    /\ lastInput = <<>>
    /\ lastVerdict = NotAsked
    /\ confirmed = NoText
    /\ rejections = 0
    /\ files = [p \in {envPath(<<"a", "a", "a">>)} |-> StaleEnvFile]
    /\ writes = <<>>
    /\ inflight = {}
    /\ calls = <<>>
    /\ aws = NoResources

----------------------------------------------------------------------------
(* userBucketPrompt: one action per question; a rejected input asks again *)

askBucketName ==
    /\ pc = "bucketName"
    /\ \E input \in BucketNameInputs :
        LET answer == Answer(input, NoDefault)
            verdict == validateBucketName(answer) IN
        /\ lastInput' = input
        /\ lastVerdict' = verdict
        /\ IF verdict.ok
           THEN bucketName' = answer /\ pc' = "username"
           ELSE UNCHANGED <<bucketName, pc>>
    /\ UNCHANGED <<env, username, appUrl, allowPublicRead, region, defaultPolicy,
                   name, policyName, accessKey, error, confirmed, rejections,
                   files, writes, inflight, calls, aws>>

askUsername ==
    /\ pc = "username"
    /\ \E input \in UsernameInputs :
        LET answer == Answer(input, NoDefault)
            verdict == validateUsername(answer) IN
        /\ lastInput' = input
        /\ lastVerdict' = verdict
        /\ IF verdict.ok
           THEN username' = answer /\ pc' = "appUrl"
           ELSE UNCHANGED <<username, pc>>
    /\ UNCHANGED <<env, bucketName, appUrl, allowPublicRead, region, defaultPolicy,
                   name, policyName, accessKey, error, confirmed, rejections,
                   files, writes, inflight, calls, aws>>

askAppUrl ==
    /\ pc = "appUrl"
    /\ \E input \in AppUrlInputs :
        LET answer == Answer(input, DefaultAppUrl)
            verdict == validateAppUrl(answer) IN
        /\ lastInput' = input
        /\ lastVerdict' = verdict
        /\ IF verdict.ok
           THEN appUrl' = answer /\ pc' = "allowPublicRead"
           ELSE UNCHANGED <<appUrl, pc>>
    /\ UNCHANGED <<env, bucketName, username, allowPublicRead, region, defaultPolicy,
                   name, policyName, accessKey, error, confirmed, rejections,
                   files, writes, inflight, calls, aws>>

askAllowPublicRead ==
    /\ pc = "allowPublicRead"
    /\ \E answer \in BOOLEAN : allowPublicRead' = answer
    /\ pc' = "region"
    /\ lastInput' = <<>>
    /\ lastVerdict' = Accept
    /\ UNCHANGED <<env, bucketName, username, appUrl, region, defaultPolicy,
                   name, policyName, accessKey, error, confirmed, rejections,
                   files, writes, inflight, calls, aws>>

askRegion ==
    /\ pc = "region"
    /\ \E input \in RegionInputs :
        region' = AnswerRegion(input, env.AWS_DEFAULT_REGION)
    /\ pc' = "defaultPolicy"
    /\ UNCHANGED <<env, bucketName, username, appUrl, allowPublicRead, defaultPolicy,
                   name, policyName, accessKey, error, lastInput, lastVerdict,
                   confirmed, rejections, files, writes, inflight, calls, aws>>

\* the last question; userBucketPrompt returns and index.ts:27 branches
askDefaultPolicy ==
    /\ pc = "defaultPolicy"
    /\ \E answer \in BOOLEAN :
        /\ defaultPolicy' = answer
        /\ pc' = IF answer THEN "createS3Bucket" ELSE "policyName"
    /\ UNCHANGED <<env, bucketName, username, appUrl, allowPublicRead, region,
                   name, policyName, accessKey, error, lastInput, lastVerdict,
                   confirmed, rejections, files, writes, inflight, calls, aws>>

----------------------------------------------------------------------------
(* The custom-policy branch of index.ts:27-48 *)

\* customPolicyNamePrompt
askPolicyName ==
    /\ pc = "policyName"
    /\ \E input \in PolicyNameInputs :
        LET answer == Answer(input, NoDefault)
            verdict == validatePolicyName(answer) IN
        /\ lastInput' = input
        /\ lastVerdict' = verdict
        /\ IF verdict.ok
           THEN name' = answer /\ pc' = "writeSkeleton"
           ELSE UNCHANGED <<name, pc>>
    /\ UNCHANGED <<env, bucketName, username, appUrl, allowPublicRead, region,
                   defaultPolicy, policyName, accessKey, error, confirmed,
                   rejections, files, writes, inflight, calls, aws>>

\* index.ts:29-45
writeSkeleton ==
    /\ pc = "writeSkeleton"
    /\ files' = writeFileSync(files, PolicyFile, skeletonPolicy(bucketName))
    /\ writes' = Append(writes, PolicyFile)
    /\ pc' = "editor"
    /\ UNCHANGED <<env, bucketName, username, appUrl, allowPublicRead, region,
                   defaultPolicy, name, policyName, accessKey, error, lastInput,
                   lastVerdict, confirmed, rejections, inflight, calls, aws>>

\* customPolicyPrompt, question editor: validate() opens the editor and
\* returns true
askEditor ==
    /\ pc = "editor"
    /\ lastInput' = <<>>
    /\ lastVerdict' = Accept
    /\ pc' = "policies"
    /\ UNCHANGED <<env, bucketName, username, appUrl, allowPublicRead, region,
                   defaultPolicy, name, policyName, accessKey, error, confirmed,
                   rejections, files, writes, inflight, calls, aws>>

\* customPolicyPrompt, question policies: the operator confirms; on true the
\* prompt returns and index.ts:47 assigns policyName
askPolicies ==
    /\ pc = "policies"
    /\ LET verdict == validatePolicies(files[PolicyFile]) IN
        /\ lastInput' = <<>>
        /\ lastVerdict' = verdict
        /\ IF verdict.ok
           THEN /\ confirmed' = files[PolicyFile]
                /\ policyName' = Defined(name)
                /\ pc' = "createS3Bucket"
                /\ rejections' = 0
           ELSE /\ rejections' = IF rejections < MaxRejections
                                 THEN rejections + 1 ELSE rejections
                /\ UNCHANGED <<confirmed, policyName, pc>>
    /\ UNCHANGED <<env, bucketName, username, appUrl, allowPublicRead, region,
                   defaultPolicy, name, accessKey, error,
                   files, writes, inflight, calls, aws>>

\* the operator saves custom-bucket-policy.json from the editor: possible
\* at any moment from the time the file exists until the process ends
operatorSavesFile ==
    /\ pc \notin {"done", "error"}
    /\ PolicyFile \in DOMAIN files
    /\ \E text \in FileTexts(bucketName) :
        /\ text # files[PolicyFile]
        /\ files' = writeFileSync(files, PolicyFile, text)
    /\ UNCHANGED <<pc, env, bucketName, username, appUrl, allowPublicRead, region,
                   defaultPolicy, name, policyName, accessKey, error, lastInput,
                   lastVerdict, confirmed, rejections, writes, inflight, calls, aws>>

----------------------------------------------------------------------------
(* The provisioning steps of index.ts:50-131.  A step sends its request and *)
(* awaits it: nothing else of the function runs until AWS answers.          *)

\* the wrapper's request leaves; the function is suspended at its await
Send(r) ==
    /\ inflight = {}
    /\ inflight' = {r}
    /\ UNCHANGED <<pc, env, bucketName, username, appUrl, allowPublicRead, region,
                   defaultPolicy, name, policyName, accessKey, error, lastInput,
                   lastVerdict, confirmed, rejections, files, writes, calls, aws>>

\* the top-level promise rejects: nothing catches, the process ends
Throw(e) ==
    /\ pc' = "error"
    /\ error' = e
    /\ UNCHANGED <<env, bucketName, username, appUrl, allowPublicRead, region,
                   defaultPolicy, name, policyName, accessKey, lastInput,
                   lastVerdict, confirmed, rejections, files, writes,
                   inflight, calls, aws>>

\* utils.ts:88-101
createS3Bucket ==
    /\ pc = "createS3Bucket"
    /\ Send([Request("createBucket", region) EXCEPT !.Bucket = bucketName])

\* utils.ts:103-121, called at index.ts:57-69
attachBucketCors ==
    /\ pc = "attachBucketCors"
    /\ Send([Request("putBucketCors", region) EXCEPT
                !.Bucket = bucketName, !.CORSRules = corsConfiguration(appUrl)])

\* utils.ts:130-141, the first request of attachPublicBucketPolicy
putPublicAccessBlock ==
    /\ pc = "putPublicAccessBlock"
    /\ Send([Request("putPublicAccessBlock", region) EXCEPT
                !.Bucket = bucketName,
                !.PublicAccessBlock = publicAccessBlockConfiguration])

\* utils.ts:142-158, the second request of attachPublicBucketPolicy
putBucketPolicy ==
    /\ pc = "putBucketPolicy"
    /\ Send([Request("putBucketPolicy", region) EXCEPT
                !.Bucket = bucketName, !.Policy = publicBucketPolicy(bucketName)])

\* utils.ts:29-38
createUser ==
    /\ pc = "createUser"
    /\ Send([Request("createUser", region) EXCEPT !.UserName = username])

\* utils.ts:161-181, the createPolicy of getDefaultUserPolicy
getDefaultUserPolicy ==
    /\ pc = "getDefaultUserPolicy"
    /\ Send([Request("createPolicy", region) EXCEPT
                !.PolicyName = defaultPolicyName(bucketName),
                !.PolicyDocument = defaultPolicyDocument(bucketName)])

\* index.ts:102-111: the name check, the second read of the file, and
\* createPolicy on JSON.stringify(JSON.parse(text))
createCustomPolicy ==
    /\ pc = "createCustomPolicy"
    /\ inflight = {}
    /\ IF Falsy(policyName)
       THEN Throw("Policy name not found")
       ELSE IF JSONparse(files[PolicyFile]).threw
       THEN Throw("SyntaxError")
       ELSE Send([Request("createPolicy", region) EXCEPT
                    !.PolicyName = Str(policyName.value),
                    !.PolicyDocument =
                        JSONstringify(JSONparse(files[PolicyFile]).value, 0)])

\* utils.ts:73-86, called at index.ts:94-98 or index.ts:112-116
attachUserPolicy ==
    /\ pc = "attachUserPolicy"
    /\ Send([Request("attachUserPolicy", region) EXCEPT
                !.UserName = username,
                !.PolicyArn = IF defaultPolicy
                              THEN defaultPolicyArn(bucketName)
                              ELSE customPolicyArn(policyName.value)])

\* utils.ts:58-71
createAccessKey ==
    /\ pc = "createAccessKey"
    /\ Send([Request("createAccessKey", region) EXCEPT !.UserName = username])

\* mutant of After: the CORS rules are put after the user is created
AfterUserBeforeCors(p) ==
    CASE p = "createS3Bucket"       -> "createUser"
      [] p = "createUser"           -> "attachBucketCors"
      [] p = "attachBucketCors"     -> IF allowPublicRead THEN "putPublicAccessBlock"
                                       ELSE IF defaultPolicy THEN "getDefaultUserPolicy"
                                       ELSE "createCustomPolicy"
      [] p = "putPublicAccessBlock" -> "putBucketPolicy"
      [] p = "putBucketPolicy"      -> IF defaultPolicy THEN "getDefaultUserPolicy"
                                       ELSE "createCustomPolicy"
      [] p = "getDefaultUserPolicy" -> "attachUserPolicy"
      [] p = "createCustomPolicy"   -> "attachUserPolicy"
      [] p = "attachUserPolicy"     -> "createAccessKey"
      [] p = "createAccessKey"      -> "writeEnv"

\* where the function resumes when the awaited request of step p succeeded
After(p) ==
    CASE p = "createS3Bucket"       -> "attachBucketCors"
      [] p = "attachBucketCors"     -> IF allowPublicRead THEN "putPublicAccessBlock"
                                       ELSE "createUser"
      [] p = "putPublicAccessBlock" -> "putBucketPolicy"
      [] p = "putBucketPolicy"      -> "createUser"
      [] p = "createUser"           -> IF defaultPolicy THEN "getDefaultUserPolicy"
                                       ELSE "createCustomPolicy"
      [] p = "getDefaultUserPolicy" -> "attachUserPolicy"
      [] p = "createCustomPolicy"   -> "attachUserPolicy"
      [] p = "attachUserPolicy"     -> "createAccessKey"
      [] p = "createAccessKey"      -> "writeEnv"

\* mutant of OnRejected: the failure is swallowed and the flow goes on
OnRejectedContinue(p) == After(p)

\* where the function goes when the awaited request of step p failed: no
\* try/catch anywhere, the rejection ends the function
OnRejected(p) == "error"

\* AWS answers the request with success
awsSucceeds ==
    \E r \in inflight : \E resp \in Responses(r) :
        /\ inflight' = inflight \ {r}
        /\ calls' = Append(calls, [request |-> r, ok |-> TRUE, response |-> resp])
        /\ aws' = Apply(aws, r, resp)
        /\ accessKey' = IF r.op = "createAccessKey" THEN resp.AccessKey ELSE accessKey
        /\ pc' = After(pc)
        /\ UNCHANGED <<env, bucketName, username, appUrl, allowPublicRead, region,
                       defaultPolicy, name, policyName, error, lastInput,
                       lastVerdict, confirmed, rejections, files, writes>>

\* AWS answers the request with an error
awsFails ==
    \E r \in inflight :
        /\ inflight' = inflight \ {r}
        /\ calls' = Append(calls, [request |-> r, ok |-> FALSE,
                                   response |-> [Arn |-> "", AccessKey |-> NoAccessKey]])
        /\ pc' = OnRejected(pc)
        /\ error' = IF OnRejected(pc) = "error" THEN "AWSError" ELSE error
        /\ UNCHANGED <<env, bucketName, username, appUrl, allowPublicRead, region,
                       defaultPolicy, name, policyName, accessKey, lastInput,
                       lastVerdict, confirmed, rejections, files, writes, aws>>

\* index.ts:129-133
writeEnvFile ==
    /\ pc = "writeEnv"
    /\ files' = writeFileSync(files, envPath(bucketName),
                              envFileContent(accessKey, bucketName, region))
    /\ writes' = Append(writes, envPath(bucketName))
    /\ pc' = "done"
    /\ UNCHANGED <<env, bucketName, username, appUrl, allowPublicRead, region,
                   defaultPolicy, name, policyName, accessKey, error, lastInput,
                   lastVerdict, confirmed, rejections, inflight, calls, aws>>

Next ==
    \/ askBucketName
    \/ askUsername
    \/ askAppUrl
    \/ askAllowPublicRead
    \/ askRegion
    \/ askDefaultPolicy
    \/ askPolicyName
    \/ writeSkeleton
    \/ askEditor
    \/ askPolicies
    \/ operatorSavesFile
    \/ createS3Bucket
    \/ attachBucketCors
    \/ putPublicAccessBlock
    \/ putBucketPolicy
    \/ createUser
    \/ getDefaultUserPolicy
    \/ createCustomPolicy
    \/ attachUserPolicy
    \/ createAccessKey
    \/ awsSucceeds
    \/ awsFails
    \/ writeEnvFile

Spec == Init /\ [][Next]_vars

----------------------------------------------------------------------------
(* Vocabulary of the properties *)

\* the requests made so far, answered or not, in the order they were sent
Sent == [i \in 1..Len(calls) |-> calls[i].request]
        \o (IF inflight = {} THEN <<>> ELSE <<CHOOSE r \in inflight : TRUE>>)

SentOps == [i \in 1..Len(Sent) |-> Sent[i].op]

\* the one order of operations a run with these answers goes through
ExpectedOps ==
    <<"createBucket", "putBucketCors">>
    \o (IF allowPublicRead THEN <<"putPublicAccessBlock", "putBucketPolicy">> ELSE <<>>)
    \o <<"createUser", "createPolicy", "attachUserPolicy", "createAccessKey">>

IsPrefix(s, t) == Len(s) <= Len(t) /\ SubSeq(t, 1, Len(s)) = s

\* the writes of the credentials file of this run
EnvWrites == {i \in 1..Len(writes) : writes[i] = envPath(bucketName)}

\* the position of the first request of operation op, 0 if none was sent
FirstSent(op) ==
    IF \E i \in 1..Len(Sent) : Sent[i].op = op
    THEN CHOOSE i \in 1..Len(Sent) :
            Sent[i].op = op /\ \A j \in 1..(i - 1) : Sent[j].op # op
    ELSE 0

\* request i was answered with success
Succeeded(i) == i \in 1..Len(calls) /\ calls[i].ok

\* the resources the successful calls so far have created
RECURSIVE Created(_)
Created(n) ==
    IF n = 0 THEN NoResources
    ELSE IF calls[n].ok THEN Apply(Created(n - 1), calls[n].request, calls[n].response)
    ELSE Created(n - 1)

----------------------------------------------------------------------------
(* C1 *)

\* C1: the requests and the write of the credentials file happen in the one
\* fixed order create bucket, put CORS, (public-access-block and bucket
\* policy iff allowPublicRead), create user, create policy (default or custom
\* variant by defaultPolicy), attach user policy, create access key, write
\* .env.<bucketName>; at most one request is in flight; a request is sent
\* only when every earlier one has succeeded; no step happens twice.  (The
\* skeleton of the custom policy is written before the first request.)
C1_FixedOrder ==
    /\ Cardinality(inflight) <= 1
    /\ IsPrefix(SentOps, ExpectedOps)
    /\ \A i \in 1..(Len(Sent) - 1) : Succeeded(i)
    /\ \A i \in 1..Len(Sent) :
          Sent[i].op = "createPolicy" =>
             (Sent[i].PolicyName = "default-" \o Str(bucketName) \o "-policy") = defaultPolicy
    /\ \A i \in 1..Len(writes) : writes[i] = PolicyFile => i = 1 /\ ~defaultPolicy
    /\ Sent # <<>> => (writes # <<>> /\ writes[1] = PolicyFile) = ~defaultPolicy
    /\ Cardinality(EnvWrites) <= 1
    /\ EnvWrites # {} =>
          /\ SentOps = ExpectedOps
          /\ inflight = {}
          /\ \A i \in 1..Len(calls) : calls[i].ok
          /\ writes[Len(writes)] = envPath(bucketName)

\* a complete run through the longest path: public read, custom policy
C1_Witness ==
    /\ pc = "done"
    /\ allowPublicRead /\ ~defaultPolicy
    /\ Len(calls) = 8
    /\ EnvWrites # {}

----------------------------------------------------------------------------
(* C2 *)

\* C2: when a request fails the run ends in the error state at that step:
\* the failed request is the last one ever sent (no later request, no retry,
\* no delete or compensating request), .env.<bucketName> is not written, and
\* everything the earlier requests created still exists.
C2_FailureEndsRun ==
    \A i \in 1..Len(calls) :
        ~calls[i].ok =>
            /\ i = Len(Sent)
            /\ pc = "error" /\ error = "AWSError"
            /\ IsPrefix(SentOps, ExpectedOps)
            /\ EnvWrites = {}
            /\ aws = Created(i - 1)

\* the user creation failed after the bucket, its CORS rules and its public
\* policy were created
C2_Witness ==
    /\ pc = "error"
    /\ Len(calls) = 5
    /\ ~calls[5].ok /\ calls[5].request.op = "createUser"
    /\ aws.buckets = {bucketName} /\ aws.bucketPolicy # {}

----------------------------------------------------------------------------
(* C3 *)

\* the text parses as JSON and passes policySchema
PassesSchema(text) == text.parsable /\ policySchema(text.value) = <<>>

----------------------------------------------------------------------------
(* C4: the schema alone, on every document of a bounded family.  The        *)
(* operator has left some text in custom-bucket-policy.json and confirms.   *)

\* an object of the keys whose value is not undefined
ObjectOf(ks, xs) ==
    LET kept == SelectSeq([i \in 1..Len(ks) |-> i], LAMBDA i : xs[i] # JUndefined) IN
    JObj([j \in 1..Len(kept) |-> ks[kept[j]]], [j \in 1..Len(kept) |-> xs[kept[j]]])

EffectValues == {JUndefined, JStr("Allow"), JNum("1")}
ActionValues ==
    {JUndefined, JStr("s3:GetObject"), JArr(<<>>), JArr(<<JStr("s3:GetObject")>>),
     JArr(<<JStr("s3:GetObject"), JNum("1")>>)}
ResourceValues == {JUndefined, JArr(<<>>), JArr(<<JStr("arn:aws:s3:::aaa/*")>>)}

StatementValues ==
    {ObjectOf(<<"Effect", "Action", "Resource">>, <<e, a, r>>) :
        e \in EffectValues, a \in ActionValues, r \in ResourceValues}
    \cup {JStr("Allow")}

VersionValues == {JUndefined, JStr("2012-10-17"), JStr("2008-10-17"), JNum("2012")}

\* the values of Statement with up to n statements
StatementArrayValues(n) ==
    {JUndefined, JObj(<<>>, <<>>)}
    \cup {JArr(xs) : xs \in SeqsUpTo(StatementValues, n)}

DocumentValues(n) ==
    {ObjectOf(<<"Version", "Statement">>, <<v, st>>) :
        v \in VersionValues, st \in StatementArrayValues(n)}
    \cup {JNull, JArr(<<>>), JStr("2012-10-17")}

SchemaTexts(n) == {JSONstringify(d, 4) : d \in DocumentValues(n)} \cup {NotJson}

InitSchema ==
    /\ pc = "policies"
    /\ env = [AWS_ACCOUNT_ID |-> AwsAccountId, AWS_DEFAULT_REGION |-> "us-east-1"]
    /\ bucketName = <<"a", "a", "a">>
    /\ username = <<"j", "o", ".", "d", "o", "e", "_", "1">>
    /\ appUrl = DefaultAppUrl
    /\ allowPublicRead = FALSE /\ region = "us-east-1" /\ defaultPolicy = FALSE
    /\ name = <<"m", "y", "-", "p", "o", "l">>
    /\ policyName = Undefined
    /\ accessKey = NoAccessKey
    /\ error = ""
    /\ lastInput = <<>>
    /\ lastVerdict = Accept
    /\ confirmed = NoText
    /\ rejections = 0
    /\ \E text \in SchemaTexts(MaxStatements) : files = [p \in {PolicyFile} |-> text]
    /\ writes = <<PolicyFile>>
    /\ inflight = {}
    /\ calls = <<>>
    /\ aws = NoResources

NextSchema == askPolicies

SpecSchema == InitSchema /\ [][NextSchema]_vars

\* the condition of the claim on a parsed value
ClaimedDocument(v) ==
    /\ Get(v, "Version") = JStr("2012-10-17")
    /\ Get(v, "Statement").type = "array"
    /\ Len(Get(v, "Statement").items) >= 1
    /\ \A i \in 1..Len(Get(v, "Statement").items) :
          LET st == Get(v, "Statement").items[i] IN
          /\ st.type = "object"
          /\ Get(st, "Effect").type = "string"
          /\ Get(st, "Action").type = "array"
          /\ Len(Get(st, "Action").items) >= 1
          /\ \A k \in 1..Len(Get(st, "Action").items) :
                Get(st, "Action").items[k].type = "string"
          /\ Get(st, "Resource").type = "array"
          /\ Len(Get(st, "Resource").items) >= 1
          /\ \A k \in 1..Len(Get(st, "Resource").items) :
                Get(st, "Resource").items[k].type = "string"

\* the confirmation has been judged
Judged == pc # "policies" \/ rejections > 0

\* C4: validation accepts a parsed value iff its Version is "2012-10-17" and
\* its Statement is a non-empty sequence of objects, each with a string
\* Effect, a non-empty Action of strings and a non-empty Resource of strings.
C4_SchemaAcceptsIff ==
    Judged /\ files[PolicyFile].parsable =>
        (lastVerdict.ok <=> ClaimedDocument(JSONparse(files[PolicyFile]).value))

----------------------------------------------------------------------------
(* C5 *)

\* the rule of the claim: 3 to 63 characters, each a lowercase letter, a
\* digit, '.' or '-'
BucketNameRule(s) ==
    /\ Len(s) >= 3 /\ Len(s) <= 63
    /\ \A i \in 1..Len(s) : s[i] \in Lower \cup Digit \cup {".", "-"}

\* C5: the bucket-name question accepts an input iff it satisfies the rule;
\* any other input, the empty one included, is refused with a message and
\* asked again; so the Bucket of every request satisfies the rule.
C5_BucketNameRule ==
    /\ pc = "bucketName" /\ lastVerdict # NotAsked =>
          /\ ~BucketNameRule(lastInput)
          /\ ~lastVerdict.ok /\ lastVerdict.message # ""
          /\ bucketName = <<>>
    /\ pc # "bucketName" => BucketNameRule(bucketName)
    /\ pc = "username" /\ lastVerdict.ok => lastInput = bucketName
    /\ \A i \in 1..Len(Sent) :
          Sent[i].op \in {"createBucket", "putBucketCors", "putPublicAccessBlock",
                          "putBucketPolicy"}
             => Sent[i].Bucket = bucketName /\ BucketNameRule(Sent[i].Bucket)

\* a bucket with a name of exactly 63 characters was created
C5_Witness ==
    /\ Len(bucketName) = 63
    /\ bucketName \in aws.buckets

----------------------------------------------------------------------------
(* C6 *)

\* C6: .env.<bucketName> is written only when every provisioning step, the
\* last being create access key, has succeeded; it is written once, replaces
\* any file of that name, and holds the four assignments in this order: the
\* key id and the secret of that run's create-access-key response, the bucket
\* name of the prompt, and the region given to every provisioning call.
C6_CredentialsFile ==
    /\ Cardinality(EnvWrites) <= 1
    /\ EnvWrites = {} /\ bucketName # <<>> =>
          \/ envPath(bucketName) \notin DOMAIN files
          \/ files[envPath(bucketName)] = StaleEnvFile
    /\ EnvWrites # {} =>
          /\ inflight = {}
          /\ SentOps = ExpectedOps
          /\ \A i \in 1..Len(calls) : calls[i].ok
          /\ calls[Len(calls)].request.op = "createAccessKey"
          /\ \A i \in 1..Len(calls) : calls[i].request.region = region
          /\ files[envPath(bucketName)] =
                Join(<<"AWS_ACCESS_KEY_ID=" \o calls[Len(calls)].response.AccessKey.AccessKeyId,
                       "AWS_SECRET_ACCESS_KEY=" \o calls[Len(calls)].response.AccessKey.SecretAccessKey,
                       "AWS_BUCKET_NAME=" \o Str(bucketName),
                       "AWS_REGION=" \o calls[1].request.region>>, "\n")

\* the file of an earlier run was replaced, in a run whose region answer was
\* left blank with no default in the environment
C6_Witness ==
    /\ pc = "done"
    /\ bucketName = <<"a", "a", "a">>
    /\ files[envPath(bucketName)] # StaleEnvFile
    /\ region = ""

----------------------------------------------------------------------------
(* C7 *)

\* C7: with the default policy the run registers one policy, named
\* default-<bucketName>-policy, of one statement with Effect Allow, Action
\* [s3:PutObject, s3:GetObject] and Resource [arn:aws:s3:::<bucketName>/*];
\* the ARN attached is arn:aws:iam::<AWS_ACCOUNT_ID>:policy/default-<bucketName>-policy
\* of the environment's account id, whatever the response said; the attach
\* request follows a successful create user and a successful create policy.
C7_DefaultPolicy ==
    defaultPolicy =>
        /\ Cardinality({i \in 1..Len(Sent) : Sent[i].op = "createPolicy"}) <= 1
        /\ pc = "done" => Cardinality(aws.policies) = 1
        /\ \A i \in 1..Len(Sent) :
              Sent[i].op = "createPolicy" =>
                /\ Sent[i].PolicyName = "default-" \o Str(bucketName) \o "-policy"
                /\ JSONparse(Sent[i].PolicyDocument).value =
                      JObj(<<"Version", "Statement">>,
                           <<JStr("2012-10-17"),
                             JArr(<<JObj(<<"Effect", "Action", "Resource">>,
                                         <<JStr("Allow"),
                                           JArr(<<JStr("s3:PutObject"), JStr("s3:GetObject")>>),
                                           JArr(<<JStr("arn:aws:s3:::" \o Str(bucketName)
                                                       \o "/*")>>)>>)>>)>>)
        /\ \A i \in 1..Len(Sent) :
              Sent[i].op = "attachUserPolicy" =>
                /\ Sent[i].PolicyArn =
                      "arn:aws:iam::" \o Interpolate(env.AWS_ACCOUNT_ID)
                        \o ":policy/default-" \o Str(bucketName) \o "-policy"
                /\ Sent[i].UserName = username
                /\ \E j \in 1..(i - 1) : Sent[j].op = "createUser" /\ Succeeded(j)
                /\ \E j \in 1..(i - 1) : Sent[j].op = "createPolicy" /\ Succeeded(j)

\* a finished default-policy run in which the ARN attached is not the ARN
\* of the policy IAM registered
C7_Witness ==
    /\ pc = "done" /\ defaultPolicy
    /\ \E p \in aws.policies : \E a \in aws.attachments : a.PolicyArn # p.Arn

----------------------------------------------------------------------------
(* C8 *)

\* C8: put-public-access-block and put-bucket-policy are sent iff
\* allowPublicRead; the first sets all four flags to false, the second is
\* sent only once the first has succeeded, and its policy grants Principal *
\* the one action s3:GetObject on arn:aws:s3:::<bucketName>/public/* alone.
C8_PublicRead ==
    /\ \A i \in 1..Len(Sent) :
          Sent[i].op \in {"putPublicAccessBlock", "putBucketPolicy"} => allowPublicRead
    /\ allowPublicRead /\ FirstSent("createUser") > 0 =>
          /\ Succeeded(FirstSent("putPublicAccessBlock"))
          /\ Succeeded(FirstSent("putBucketPolicy"))
          /\ FirstSent("putBucketPolicy") < FirstSent("createUser")
    /\ \A i \in 1..Len(Sent) :
          Sent[i].op = "putPublicAccessBlock" =>
             /\ Sent[i].Bucket = bucketName
             /\ Sent[i].PublicAccessBlock =
                   [BlockPublicAcls |-> FALSE, IgnorePublicAcls |-> FALSE,
                    RestrictPublicBuckets |-> FALSE, BlockPublicPolicy |-> FALSE]
    /\ \A i \in 1..Len(Sent) :
          Sent[i].op = "putBucketPolicy" =>
             /\ i > 1 /\ Sent[i - 1].op = "putPublicAccessBlock" /\ Succeeded(i - 1)
             /\ Sent[i].Bucket = bucketName
             /\ LET statements == Get(JSONparse(Sent[i].Policy).value, "Statement").items IN
                 /\ Len(statements) = 1
                 /\ Get(statements[1], "Effect") = JStr("Allow")
                 /\ Get(statements[1], "Principal") = JStr("*")
                 /\ Get(statements[1], "Action") = JArr(<<JStr("s3:GetObject")>>)
                 /\ Get(statements[1], "Resource") =
                       JArr(<<JStr("arn:aws:s3:::" \o Str(bucketName) \o "/public/*")>>)

\* a finished run with public read: the flags are off and the policy is set
C8_Witness ==
    /\ pc = "done" /\ allowPublicRead
    /\ aws.publicAccessBlock # {} /\ aws.bucketPolicy # {}

----------------------------------------------------------------------------
(* C10 *)

\* C10: in the custom-policy path the document passed to create policy, and
\* so the one registered with IAM, satisfies the policy-document schema,
\* whatever happens to the file on disk after the confirmation.
C10_RegisteredDocumentPassesSchema ==
    ~defaultPolicy =>
        /\ \A i \in 1..Len(Sent) :
              Sent[i].op = "createPolicy" => PassesSchema(Sent[i].PolicyDocument)
        /\ \A p \in aws.policies : PassesSchema(p.PolicyDocument)

====
